---------------------------- MODULE Spec2Model ----------------------------
(***************************************************************************)
(* A model of the asset-tracker dashboard (src/asset_tracker.py) and of    *)
(* the ticker classifiers of the two alternate fetchers                    *)
(* (src/alpha_tracker.py, src/twelve_data_tracker.py).                     *)
(*                                                                         *)
(* Strings of the program are sequences of one-character strings, so that  *)
(* strip(), upper(), the regular expression and the substring tests are    *)
(* computed character by character.                                        *)
(***************************************************************************)
EXTENDS Integers, Sequences, FiniteSets, TLC

VARIABLES
    \* st.session_state
    ticker_list, selected_assets, user_input,
    add_ticker_error, add_ticker_error_expires, yf_ok,
    \* the last add_ticker call, as an observer saw it (history)
    last_add,
    \* wall clock (seconds)
    now,
    \* the calendar: local_today, January 1 of its year, the NYSE holidays
    today, jan1, holidays,
    \* the sidebar widgets "Time Range" and "Chart Type"
    selected_range, view,
    \* st.cache_data of get_yf_data, and the calls made to it (history)
    cache, log,
    \* one render pass (a run of the script body)
    pc, stages, days_back, start_date, adj_date,
    checked, invalid, message, warning,
    \* what ensure_yfinance_once did in this pass, as an observer saw it (history)
    last_probe,
    data, aligned, filtered_data, patch_i, before_patch, last_quote, chart_data,
    \* a ticker handed to the classifiers, and what each answered
    sym, cls

sessVars == << ticker_list, selected_assets, user_input,
               add_ticker_error, add_ticker_error_expires, yf_ok, last_add >>
calVars == << today, jan1, holidays >>
widgetVars == << selected_range, view >>
cacheVars == << cache, log >>
dateVars == << days_back, start_date, adj_date >>
checkVars == << last_probe, checked, invalid >>
tableVars == << data, aligned, filtered_data, patch_i, before_patch,
                last_quote, chart_data >>
passVars == << pc, stages, message, warning, dateVars, checkVars, tableVars >>
fnVars == << sym, cls >>
otherVars == << calVars, widgetVars, cacheVars, fnVars >>

vars == << sessVars, now, calVars, widgetVars, cacheVars, passVars, fnVars >>

watchlist == << ticker_list, selected_assets >>

-----------------------------------------------------------------------------
(* Characters and strings                                                  *)

LowerCase == << "a","b","c","d","e","f","g","h","i","j","k","l","m",
                "n","o","p","q","r","s","t","u","v","w","x","y","z" >>
UpperCase == << "A","B","C","D","E","F","G","H","I","J","K","L","M",
                "N","O","P","Q","R","S","T","U","V","W","X","Y","Z" >>
Digits == { "0","1","2","3","4","5","6","7","8","9" }

Range(s) == { s[i] : i \in DOMAIN s }

\* str.upper() on one character
UpperChar(c) ==
    IF \E i \in DOMAIN LowerCase : LowerCase[i] = c
    THEN UpperCase[CHOOSE i \in DOMAIN LowerCase : LowerCase[i] = c]
    ELSE c

\* str.upper()
Upper(s) == [ i \in DOMAIN s |-> UpperChar(s[i]) ]

\* the characters str.strip() removes
Whitespace == { " ", "\n", "\t", "\r", "\f" }

\* str.strip(): drop leading and trailing whitespace
Strip(s) ==
    LET keep == { i \in DOMAIN s : s[i] \notin Whitespace }
    IN  IF keep = {} THEN << >>
        ELSE LET lo == CHOOSE i \in keep : \A j \in keep : i <= j
                 hi == CHOOSE i \in keep : \A j \in keep : j <= i
             IN  SubSeq(s, lo, hi)

\* sub in s (Python's substring test)
Contains(s, sub) ==
    \E i \in 1..(Len(s) - Len(sub) + 1) : SubSeq(s, i, i + Len(sub) - 1) = sub

\* s.endswith(suffix)
EndsWith(s, suffix) ==
    /\ Len(suffix) <= Len(s)
    /\ SubSeq(s, Len(s) - Len(suffix) + 1, Len(s)) = suffix

\* x in list
InList(x, list) == \E i \in DOMAIN list : list[i] = x

-----------------------------------------------------------------------------
(* Module-level data of asset_tracker.py                                   *)

SPY    == << "S","P","Y" >>
EFA    == << "E","F","A" >>
IWM    == << "I","W","M" >>
QQQ    == << "Q","Q","Q" >>
STRK   == << "S","T","R","K" >>
NVDA   == << "N","V","D","A" >>
APPL   == << "A","P","P","L" >>
DXY    == << "D","X","-","Y",".","N","Y","B" >>
GCF    == << "G","C","=","F" >>
SIF    == << "S","I","=","F" >>
HGF    == << "H","G","=","F" >>
BTCUSD == << "B","T","C","-","U","S","D" >>
ETHUSD == << "E","T","H","-","U","S","D" >>
SOLUSD == << "S","O","L","-","U","S","D" >>

tickers == << SPY, EFA, IWM, QQQ, STRK, NVDA, APPL,
              DXY, GCF, SIF, HGF,
              BTCUSD, ETHUSD, SOLUSD >>

default_tickers == << SPY, IWM, EFA, QQQ >>

\* a message of st.session_state.add_ticker_error: the fixed text and the
\* ticker an f-string puts into it
Msg(text, arg) == [ text |-> text, arg |-> arg ]
NoError == Msg("", << >>)

\* no add_ticker call was the last thing that happened
NoAdd == [ raw |-> << >>, validity |-> "none", before |-> << >> ]

-----------------------------------------------------------------------------
(* add_ticker                                                              *)

\* any(sep in new_ticker for sep in [",", " ", ";", "\n", "\t"])
Separators == { ",", " ", ";", "\n", "\t" }
HasSeparator(t) == \E i \in DOMAIN t : t[i] \in Separators

\* _TICKER_RE = ^[A-Z0-9.\-=\^]+$
TickerChars == Range(UpperCase) \cup Digits \cup { ".", "-", "=", "^" }

\* the character class of _TICKER_RE left out
TickerReMatch_AnyChar(t) == Len(t) > 0

TickerReMatch(t) == Len(t) > 0 /\ \A i \in DOMAIN t : t[i] \in TickerChars

\* add_ticker_error_expires is kept in half seconds (time.time() + 1.5)
HalfSeconds(secs) == 2 * secs

\* add_ticker appending to ticker_list without the membership test
add_ticker_AppendAlways(raw, valid) ==
    LET new_ticker == Upper(Strip(raw))
        already_in_list == InList(new_ticker, ticker_list)
        already_selected == InList(new_ticker, selected_assets)
        asked == /\ new_ticker # << >>
                 /\ ~HasSeparator(new_ticker)
                 /\ TickerReMatch(new_ticker)
                 /\ ~(already_in_list /\ already_selected)
    IN  /\ pc = "idle"
        /\ user_input' = << >>
        /\ last_add' = [ raw |-> raw,
                         validity |-> IF ~asked THEN "not asked"
                                      ELSE IF valid THEN "valid" ELSE "invalid",
                         before |-> watchlist ]
        /\ IF asked /\ valid
           THEN /\ ticker_list' = Append(ticker_list, new_ticker)
                /\ selected_assets' = IF InList(new_ticker, selected_assets)
                                      THEN selected_assets
                                      ELSE Append(selected_assets, new_ticker)
                /\ add_ticker_error' = NoError
                /\ add_ticker_error_expires' = 0
           ELSE /\ add_ticker_error' = Msg("rejected", new_ticker)
                /\ add_ticker_error_expires' = HalfSeconds(now) + 4
                /\ UNCHANGED << ticker_list, selected_assets >>
        /\ UNCHANGED << yf_ok, now, otherVars, passVars >>

\* One on_change callback of the "Add ticker" text input: the user typed raw;
\* valid is what is_valid_ticker answers if it is asked.
add_ticker(raw, valid) ==
    LET new_ticker == Upper(Strip(raw))
        already_in_list == InList(new_ticker, ticker_list)
        already_selected == InList(new_ticker, selected_assets)
        asked == /\ new_ticker # << >>
                 /\ ~HasSeparator(new_ticker)
                 /\ TickerReMatch(new_ticker)
                 /\ ~(already_in_list /\ already_selected)
    IN  /\ pc = "idle"
        /\ user_input' = << >>
        /\ last_add' = [ raw |-> raw,
                         validity |-> IF ~asked THEN "not asked"
                                      ELSE IF valid THEN "valid" ELSE "invalid",
                         before |-> watchlist ]
        /\ IF new_ticker = << >>
           THEN UNCHANGED << ticker_list, selected_assets,
                             add_ticker_error, add_ticker_error_expires >>
           ELSE IF HasSeparator(new_ticker)
           THEN /\ add_ticker_error' =
                       Msg("Enter exactly ONE ticker (no commas or spaces).", << >>)
                /\ add_ticker_error_expires' = HalfSeconds(now) + 4
                /\ UNCHANGED << ticker_list, selected_assets >>
           ELSE IF ~TickerReMatch(new_ticker)
           THEN /\ add_ticker_error' =
                       Msg("Ticker contains invalid characters.", << >>)
                /\ add_ticker_error_expires' = HalfSeconds(now) + 4
                /\ UNCHANGED << ticker_list, selected_assets >>
           ELSE IF already_in_list /\ already_selected
           THEN /\ add_ticker_error' = Msg("{} is already selected.", new_ticker)
                /\ add_ticker_error_expires' = HalfSeconds(now) + 3
                /\ UNCHANGED << ticker_list, selected_assets >>
           ELSE IF valid
           THEN /\ ticker_list' = IF InList(new_ticker, ticker_list)
                                  THEN ticker_list
                                  ELSE Append(ticker_list, new_ticker)
                /\ selected_assets' = IF InList(new_ticker, selected_assets)
                                      THEN selected_assets
                                      ELSE Append(selected_assets, new_ticker)
                /\ add_ticker_error' = NoError
                /\ add_ticker_error_expires' = 0
           ELSE /\ add_ticker_error' =
                       Msg("Sorry, {} is not a valid ticker.", new_ticker)
                /\ add_ticker_error_expires' = HalfSeconds(now) + 4
                /\ UNCHANGED << ticker_list, selected_assets >>
        /\ UNCHANGED << yf_ok, now, otherVars, passVars >>

\* st.multiselect(options = ticker_list, key = "selected_assets"): the user
\* removes a selected option or picks one more of the offered options
Multiselect(t) ==
    /\ pc = "idle"
    /\ InList(t, ticker_list)
    /\ selected_assets' =
          IF InList(t, selected_assets)
          THEN SelectSeq(selected_assets, LAMBDA x : x # t)
          ELSE Append(selected_assets, t)
    /\ last_add' = NoAdd
    /\ UNCHANGED << ticker_list, user_input, add_ticker_error,
                    add_ticker_error_expires, yf_ok, now,
                    otherVars, passVars >>

-----------------------------------------------------------------------------
(* Floating-point values and price tables                                  *)
(* A float is NaN, an infinity or an exact fraction n/d with d > 0.        *)

RECURSIVE GCD(_, _)
GCD(a, b) == IF b = 0 THEN a ELSE GCD(b, a % b)
Abs(x) == IF x < 0 THEN -x ELSE x

NaN == [ kind |-> "nan", n |-> 0, d |-> 1 ]
Inf(sign) == [ kind |-> "inf", n |-> sign, d |-> 1 ]
Frac(n, d) ==
    LET g == GCD(Abs(n), Abs(d))
        sgn == IF d < 0 THEN -1 ELSE 1
    IN  [ kind |-> "num", n |-> sgn * (n \div g), d |-> sgn * (d \div g) ]
Num(n) == Frac(n, 1)

\* pd.isna
isna(x) == x.kind = "nan"

\* x / y on floats: a zero divisor gives an infinity, or NaN for 0/0
FDiv(x, y) ==
    IF isna(x) \/ isna(y) THEN NaN
    ELSE IF y.kind = "inf"
    THEN (IF x.kind = "inf" THEN NaN ELSE Num(0))
    ELSE IF x.kind = "inf"
    THEN Inf(IF y.n < 0 THEN -(x.n) ELSE x.n)
    ELSE IF y.n = 0
    THEN (IF x.n = 0 THEN NaN ELSE Inf(IF x.n < 0 THEN -1 ELSE 1))
    ELSE Frac(x.n * y.d, x.d * y.n)

\* x - k and x * k for an integer k
FSub(x, k) == IF x.kind = "num" THEN Frac(x.n - k * x.d, x.d) ELSE x
FMul(x, k) == IF x.kind = "num" THEN Frac(x.n * k, x.d) ELSE x

\* A table (DataFrame): the column labels and the rows in index order; a
\* row is its date and its values by column position.
NoTable == [ cols |-> << >>, rows |-> << >> ]
Row(date, val) == [ date |-> date, val |-> val ]

\* position of label t among the columns
ColPos(cols, t) == CHOOSE j \in DOMAIN cols : cols[j] = t

\* no quote was asked for
NoQuote == [ ticker |-> << >>, outcome |-> "none", price |-> NaN ]

\* ensure_yfinance_once was not called yet in this pass
NoProbe == [ called |-> FALSE, flag |-> FALSE, outcome |-> "none" ]

\* no classifier was asked
NoAnswer == [ alpha |-> "none", twelve |-> << >>, realtime |-> "none" ]

\* init_state(): the session state of a new session
init_state ==
    /\ yf_ok = FALSE
    /\ ticker_list = tickers
    /\ selected_assets = default_tickers
    /\ user_input = << >>
    /\ add_ticker_error = NoError
    /\ add_ticker_error_expires = 0
    /\ last_add = NoAdd

-----------------------------------------------------------------------------
(* The sidebar of one session: what the user types and picks               *)

MaxInputLen == 1
InputAlphabet == { "t", " ", "," }
TypedInputs == UNION { [ 1..n -> InputAlphabet ] : n \in 0..MaxInputLen }
SampleInputs ==
    { << "T","S","L","A",","," ","I","B","M" >>,
      << "T","S","L","A",";","I","B","M" >>,
      << "T","\t","S" >>,
      << " ","s","p","y","\n" >>,
      << "a","p","p","l" >>,
      << "b","r","k",".","b" >>,
      << "t","$","l","a" >> }
AddInputs == TypedInputs \cup SampleInputs

\* the options the modelled user toggles in the multiselect
ToggleTickers == { SPY, APPL }

\* the parts of the state a specification does not use
IdleClock == now = 0
IdleCalendar == today = 0 /\ jan1 = 0 /\ holidays = {}
IdleWidgets == selected_range = "1 Week" /\ view = "Normalized % Change"
IdleCache == cache = {} /\ log = << >>
IdlePass ==
    /\ pc = "idle"
    /\ stages = << >>
    /\ message = ""
    /\ warning = << >>
    /\ days_back = 0
    /\ start_date = 0
    /\ adj_date = 0
    /\ last_probe = NoProbe
    /\ checked = << >>
    /\ invalid = << >>
    /\ data = NoTable
    /\ aligned = NoTable
    /\ filtered_data = NoTable
    /\ patch_i = 0
    /\ before_patch = NoTable
    /\ last_quote = NoQuote
    /\ chart_data = NoTable
IdleClassifiers == sym = << >> /\ cls = NoAnswer

InitAdd ==
    /\ init_state
    /\ IdleClock
    /\ IdleCalendar
    /\ IdleWidgets
    /\ IdleCache
    /\ IdlePass
    /\ IdleClassifiers

NextAdd ==
    \/ \E raw \in AddInputs, valid \in BOOLEAN : add_ticker(raw, valid)
    \/ \E t \in ToggleTickers : Multiselect(t)

SpecAdd == InitAdd /\ [][NextAdd]_vars

\* the stripped, upper-cased input of the last add_ticker call
C1_Input == Upper(Strip(last_add.raw))

\* the rejections the claim lists: a separator, a character outside the
\* allow-list, or a validity check that answered false
C1_Rejected ==
    \/ \E i \in DOMAIN C1_Input : C1_Input[i] \in { ",", " ", ";", "\n", "\t" }
    \/ ~( /\ Len(C1_Input) >= 1
          /\ \A i \in DOMAIN C1_Input :
                C1_Input[i] \in Range(UpperCase) \cup Digits \cup { ".", "-", "=", "^" } )
    \/ last_add.validity = "invalid"

C1_FrameAndError ==
    /\ watchlist = last_add.before
    /\ add_ticker_error.text # ""

\* C1 as stated: after every add-ticker action whose stripped, upper-cased
\* input is rejected, the watchlist is what it was before the action and a
\* non-empty error message is set; the watchlist changes only when the
\* validity check succeeded.
C1_RejectedLeavesWatchlist_AsStated ==
    last_add # NoAdd =>
        /\ C1_Rejected => C1_FrameAndError
        /\ watchlist # last_add.before => last_add.validity = "valid"

\* C1 (amended): the same for every input that is not empty after stripping;
\* an input that strips to nothing is ignored and sets no message.
C1_RejectedLeavesWatchlist ==
    last_add # NoAdd =>
        /\ (C1_Input # << >> /\ C1_Rejected) => C1_FrameAndError
        /\ C1_Input = << >> =>
              /\ watchlist = last_add.before
              /\ last_add.validity = "not asked"
        /\ watchlist # last_add.before => last_add.validity = "valid"

\* "TSLA, IBM" was typed into a session whose watchlist had grown, and was
\* rejected with the single-ticker message
C1_Witness ==
    /\ last_add.raw = << "T","S","L","A",","," ","I","B","M" >>
    /\ add_ticker_error.text = "Enter exactly ONE ticker (no commas or spaces)."
    /\ Len(ticker_list) > Len(tickers)
    /\ watchlist = last_add.before

\* no entry of the list s occurs twice
C12_NoDuplicates(s) == \A i, j \in DOMAIN s : s[i] = s[j] => i = j

\* the list a is the beginning of the list b
C12_Prefix(a, b) == Len(a) <= Len(b) /\ SubSeq(b, 1, Len(a)) = a

\* the two lists are well formed, and the last add_ticker call, if it added
\* the ticker, appended at most one entry to each of them
C12_Lists ==
    /\ Range(selected_assets) \subseteq Range(ticker_list)
    /\ C12_NoDuplicates(ticker_list)
    /\ C12_NoDuplicates(selected_assets)
    /\ last_add.validity = "valid" =>
          /\ C12_Prefix(last_add.before[1], ticker_list)
          /\ C12_Prefix(last_add.before[2], selected_assets)
          /\ Len(ticker_list) <= Len(last_add.before[1]) + 1
          /\ Len(selected_assets) <= Len(last_add.before[2]) + 1

\* no step takes an entry out of ticker_list
C12_Step == C12_Prefix(ticker_list, ticker_list')

\* C12: after any add_ticker calls and multiselect changes every selected
\* ticker is in ticker_list, neither list holds an entry twice, ticker_list
\* never loses an entry, and an add_ticker call that adds the ticker appends
\* at most one entry to each list.
C12_WatchlistWellFormed == []C12_Lists /\ [][C12_Step]_vars

\* APPL, offered but not selected, was added when the list had already grown:
\* it was appended to the selection alone
C12_Witness ==
    /\ last_add.validity = "valid"
    /\ Upper(Strip(last_add.raw)) = APPL
    /\ Len(ticker_list) > Len(tickers)
    /\ ticker_list = last_add.before[1]
    /\ selected_assets = Append(last_add.before[2], APPL)

-----------------------------------------------------------------------------
(* The ticker classifiers                                                  *)

\* t.split("-")
RECURSIVE Split(_, _)
Split(s, sep) ==
    IF \E i \in DOMAIN s : s[i] = sep
    THEN LET i == CHOOSE k \in DOMAIN s :
                      s[k] = sep /\ \A j \in 1..(k - 1) : s[j] # sep
         IN  << SubSeq(s, 1, i - 1) >> \o Split(SubSeq(s, i + 1, Len(s)), sep)
    ELSE << s >>

\* alpha_tracker.is_crypto
is_crypto(ticker) == Contains(ticker, << "-" >>)

\* the crypto test of twelve_data_tracker.normalize_tickers
TwelveIsCrypto(t) ==
    Contains(t, << "-" >>) /\ EndsWith(Upper(t), << "U","S","D" >>)

\* what normalize_tickers maps one ticker t to; base, quote = ... raises
\* ValueError unless the split gives exactly two parts
ValueError == << "V","a","l","u","e","E","r","r","o","r" >>
normalize_ticker(t) ==
    IF TwelveIsCrypto(t)
    THEN LET parts == Split(Upper(t), "-")
         IN  IF Len(parts) = 2
             THEN parts[1] \o << "/" >> \o parts[2]
             ELSE ValueError
    ELSE t

\* the 24/7 test of the realtime patch loop of asset_tracker.py
IsContinuous(t) == Contains(t, << "-","U","S","D" >>)

BoolStr(b) == IF b THEN "crypto" ELSE "not crypto"

\* each classifier of the repository is asked about sym
Classify ==
    /\ cls = NoAnswer
    /\ cls' = [ alpha |-> BoolStr(is_crypto(sym)),
                twelve |-> normalize_ticker(sym),
                realtime |-> BoolStr(IsContinuous(sym)) ]
    /\ UNCHANGED << sym, sessVars, now, calVars, widgetVars, cacheVars, passVars >>

\* the next ticker is handed in
NextTicker(t) ==
    /\ cls # NoAnswer
    /\ sym' = t
    /\ cls' = NoAnswer
    /\ UNCHANGED << sessVars, now, calVars, widgetVars, cacheVars, passVars >>

MaxStemLen == 2
StemAlphabet == { "B", "-", "." }
Stems == UNION { [ 1..n -> StemAlphabet ] : n \in 0..MaxStemLen }
Tails == { << >>, << "U","S","D" >>, << "-","U","S","D" >>,
           << "-","E","U","R" >>, << "-","U","S","D","T" >>, << "=","F" >> }
SampleTickers ==
    Range(tickers) \cup
    { << "B","R","K",".","B" >>, << "^","G","S","P","C" >>,
      << "B","T","C","-","E","U","R" >>, << "b","t","c","-","u","s","d" >> }
ClassifierInputs == { a \o b : a \in Stems, b \in Tails } \cup SampleTickers

InitClassify ==
    /\ init_state
    /\ IdleClock
    /\ IdleCalendar
    /\ IdleWidgets
    /\ IdleCache
    /\ IdlePass
    /\ sym \in Range(tickers)
    /\ cls = NoAnswer

NextClassify ==
    \/ Classify
    \/ \E t \in ClassifierInputs : NextTicker(t)

SpecClassify == InitClassify /\ [][NextClassify]_vars

C4_QuoteCodes == { << "U","S","D" >>, << "E","U","R" >>, << "U","S","D","T" >> }

\* the crypto-pair form BASE-QUOTE: one "-" between a base code and a quote
\* currency code
C4_CryptoPair(t) ==
    LET parts == Split(t, "-")
    IN  /\ Len(parts) = 2
        /\ Len(parts[1]) >= 1
        /\ \A i \in DOMAIN parts[1] : parts[1][i] \in Range(UpperCase) \cup Digits
        /\ parts[2] \in C4_QuoteCodes

\* C4: each classifier treats a ticker as crypto exactly when it has the
\* crypto-pair form BASE-QUOTE, and normalize_tickers returns every other
\* ticker unchanged.
C4_ClassifiersKeyOnPairForm ==
    cls # NoAnswer =>
        /\ cls.alpha = BoolStr(C4_CryptoPair(sym))
        /\ cls.realtime = BoolStr(C4_CryptoPair(sym))
        /\ C4_CryptoPair(sym) =>
              cls.twelve = Split(sym, "-")[1] \o << "/" >> \o Split(sym, "-")[2]
        /\ ~C4_CryptoPair(sym) => cls.twelve = sym

-----------------------------------------------------------------------------
(* Dates and the market calendar                                           *)
(* A date is its day number; day 0 is a Monday.                            *)

Weekday(d) == d % 7

\* a session of the NYSE calendar (pandas_market_calendars)
IsSession(d) == Weekday(d) < 5 /\ d \notin holidays

\* nyse.valid_days(start_date, end_date), as the set of its dates
valid_days(from, to) == { d \in from..to : IsSession(d) }

\* get_yf_data calls followed in one behaviour
MaxRequests == 2

\* trading_days[0] of an empty index raises IndexError
IndexError == -1

adjust_for_non_trading_day(orig_date) ==
    LET trading_days == valid_days(orig_date, today + 1)
    IN  IF trading_days = {} THEN IndexError
        ELSE CHOOSE d \in trading_days : \A e \in trading_days : d <= e

RangeNames == { "1 Week", "1 Month", "3 Months", "6 Months",
                "YTD", "1 Year", "3 Years", "5 Years" }

range_options(name) ==
    CASE name = "1 Week"   -> 7
      [] name = "1 Month"  -> 31
      [] name = "3 Months" -> 93
      [] name = "6 Months" -> 182
      [] name = "YTD"      -> today - jan1
      [] name = "1 Year"   -> 365
      [] name = "3 Years"  -> 365 * 3
      [] name = "5 Years"  -> 365 * 5

\* the user picks a range in the "Time Range" selectbox
SelectRange(r) ==
    /\ pc = "idle"
    /\ selected_range' = r
    /\ UNCHANGED << view, sessVars, now, calVars, cacheVars, passVars, fnVars >>

\* the start of the script body: the empty-selection stop and the date
\* calculations for the selected range
DateCalc ==
    /\ pc = "idle"
    /\ IF selected_assets = << >>
       THEN /\ message' = "No assets selected. Choose one or more tickers in the sidebar."
            /\ pc' = "stopped"
            /\ UNCHANGED << stages, dateVars >>
       ELSE /\ days_back' = range_options(selected_range)
            /\ start_date' = today - range_options(selected_range)
            /\ adj_date' = adjust_for_non_trading_day(
                               today - range_options(selected_range))
            /\ stages' = << "calendar" >>
            /\ pc' = IF adjust_for_non_trading_day(
                            today - range_options(selected_range)) = IndexError
                     THEN "crashed" ELSE "connectivity"
            /\ UNCHANGED message
    /\ UNCHANGED << warning, checkVars, tableVars, sessVars, now, otherVars >>

\* the script is run again: its locals start afresh
Rerun ==
    /\ pc \in { "done", "stopped", "crashed" }
    /\ Len(log) < MaxRequests
    /\ pc' = "idle"
    /\ stages' = << >>
    /\ message' = ""
    /\ warning' = << >>
    /\ days_back' = 0
    /\ start_date' = 0
    /\ adj_date' = 0
    /\ last_probe' = NoProbe
    /\ checked' = << >>
    /\ invalid' = << >>
    /\ data' = NoTable
    /\ aligned' = NoTable
    /\ filtered_data' = NoTable
    /\ patch_i' = 0
    /\ before_patch' = NoTable
    /\ last_quote' = NoQuote
    /\ chart_data' = NoTable
    /\ UNCHANGED << sessVars, now, otherVars >>

\* New Year's Day is observed on the Monday when it falls on a Sunday, and
\* not at all when it falls on a Saturday
Observed(d) == IF Weekday(d) = 6 THEN d + 1 ELSE d

\* day number of a January 1 that is a Monday
Epoch == 3500
MaxDayOfYear == 8

InitCal ==
    /\ init_state
    /\ IdleClock
    /\ IdleWidgets
    /\ IdleCache
    /\ IdlePass
    /\ IdleClassifiers
    /\ jan1 \in Epoch..(Epoch + 6)
    /\ today \in jan1..(jan1 + MaxDayOfYear)
    /\ holidays = { Observed(jan1), Observed(jan1 - 365) }

NextCal ==
    \/ \E r \in RangeNames : SelectRange(r)
    \/ DateCalc
    \/ Rerun

SpecCal == InitCal /\ [][NextCal]_vars

\* C5: for every start date a range option produces, the adjusted date is
\* the start date itself when that is a session and otherwise the earliest
\* later session; it is never earlier than the start date and the
\* adjustment never fails.
C5_NextSessionNeverFails ==
    pc \in { "connectivity", "crashed" } =>
        /\ adj_date # IndexError
        /\ adj_date >= start_date
        /\ IsSession(adj_date)
        /\ \A d \in start_date..(adj_date - 1) : ~IsSession(d)

-----------------------------------------------------------------------------
(* The render pass: connectivity, validation, download                     *)

\* code-point order of the characters a ticker may hold
CharOrder == << "-", ".", "0","1","2","3","4","5","6","7","8","9", "=" >>
             \o UpperCase \o << "^" >>
Code(c) == CHOOSE i \in DOMAIN CharOrder : CharOrder[i] = c

\* a < b on strings
RECURSIVE StrLess(_, _)
StrLess(a, b) ==
    IF b = << >> THEN FALSE
    ELSE IF a = << >> THEN TRUE
    ELSE IF Code(Head(a)) # Code(Head(b)) THEN Code(Head(a)) < Code(Head(b))
    ELSE StrLess(Tail(a), Tail(b))

\* sorted(list) of distinct strings
RECURSIVE sorted(_)
sorted(list) ==
    IF list = << >> THEN << >>
    ELSE LET least == CHOOSE x \in Range(list) :
                          \A y \in Range(list) : x = y \/ StrLess(x, y)
         IN  << least >> \o sorted(SelectSeq(list, LAMBDA x : x # least))

\* pd.Timestamp(adj_date).strftime("%Y-%m-%d"): the text of a date, one for
\* each date
strftime(d) == << "%Y-%m-%d", d >>

\* ensure_yfinance_once: probe is what the 5-day download of SPY does
ProbeOutcomes == { "data", "empty", "raise" }

\* ensure_yfinance_once without the early return on the latched flag
ensure_yfinance_EveryPass(probe) ==
    /\ pc = "connectivity"
    /\ stages' = Append(stages, "connectivity")
    /\ last_probe' = [ called |-> TRUE, flag |-> yf_ok, outcome |-> probe ]
    /\ IF probe = "data"
       THEN /\ yf_ok' = TRUE
            /\ pc' = "validate"
            /\ UNCHANGED message
       ELSE /\ message' = IF probe = "empty"
                          THEN "No data from Yahoo Finance. Possible rate limiting. Please try again later."
                          ELSE "Data connection error: {}"
            /\ pc' = "stopped"
            /\ UNCHANGED yf_ok
    /\ UNCHANGED << ticker_list, selected_assets, user_input, add_ticker_error,
                    add_ticker_error_expires, last_add, now, otherVars,
                    warning, dateVars, checked, invalid, tableVars >>

ensure_yfinance_once(probe) ==
    /\ pc = "connectivity"
    /\ stages' = Append(stages, "connectivity")
    /\ last_probe' = [ called |-> TRUE, flag |-> yf_ok,
                       outcome |-> IF yf_ok THEN "none" ELSE probe ]
    /\ IF yf_ok
       THEN /\ pc' = "validate"
            /\ UNCHANGED << yf_ok, message >>
       ELSE IF probe = "data"
       THEN /\ yf_ok' = TRUE
            /\ pc' = "validate"
            /\ UNCHANGED message
       ELSE /\ message' = IF probe = "empty"
                          THEN "No data from Yahoo Finance. Possible rate limiting. Please try again later."
                          ELSE "Data connection error: {}"
            /\ pc' = "stopped"
            /\ UNCHANGED yf_ok
    /\ UNCHANGED << ticker_list, selected_assets, user_input, add_ticker_error,
                    add_ticker_error_expires, last_add, now, otherVars,
                    warning, dateVars, checked, invalid, tableVars >>

\* validate_assets only warns about the invalid tickers
validate_NoStop(answers) ==
    /\ pc = "validate"
    /\ stages' = Append(stages, "validate")
    /\ checked' = selected_assets
    /\ invalid' = SelectSeq(selected_assets, LAMBDA t : ~answers[t])
    /\ message' = IF SelectSeq(selected_assets, LAMBDA t : ~answers[t]) # << >>
                  THEN "Invalid ticker(s): {}. Please correct your selection."
                  ELSE message
    /\ pc' = "fetch"
    /\ UNCHANGED << sessVars, now, otherVars, warning, dateVars, last_probe,
                    tableVars >>

\* validate_assets(selected_assets): answers is what is_valid_ticker says
\* of each ticker
validate_assets(answers) ==
    /\ pc = "validate"
    /\ stages' = Append(stages, "validate")
    /\ checked' = selected_assets
    /\ invalid' = SelectSeq(selected_assets, LAMBDA t : ~answers[t])
    /\ IF SelectSeq(selected_assets, LAMBDA t : ~answers[t]) # << >>
       THEN /\ message' = "Invalid ticker(s): {}. Please correct your selection."
            /\ pc' = "stopped"
       ELSE /\ pc' = "fetch"
            /\ UNCHANGED message
    /\ UNCHANGED << sessVars, now, otherVars, warning, dateVars, last_probe,
                    tableVars >>

\* the time to live of st.cache_data(ttl=3600)
TTL == 3600

\* an entry never expires
Fresh_NoExpiry(key, t) == { e \in cache : e.key = key }

\* the cached entry get_yf_data would answer from at time t, if any
Fresh(key, t) == { e \in cache : e.key = key /\ t - e.at < TTL }

\* the "Data Download" step: the key is built and get_yf_data is called;
\* outcome is what yf.download does if it is asked
Download(outcome) ==
    LET tickers_key == sorted(selected_assets)
        start_key == strftime(adj_date)
        key == << tickers_key, start_key >>
        hit == Fresh(key, now)
        call(source, table) ==
            [ selected |-> selected_assets, adj |-> adj_date, key |-> key,
              at |-> now, source |-> source, table |-> table ]
    IN  /\ pc = "fetch"
        /\ stages' = Append(stages, "fetch")
        /\ IF hit # {}
           THEN /\ data' = (CHOOSE e \in hit : TRUE).table
                /\ log' = Append(log, call("cache", (CHOOSE e \in hit : TRUE).table))
                /\ pc' = "align"
                /\ UNCHANGED << cache, message >>
           ELSE IF outcome.raised
           THEN /\ message' = "Download failed: {}"
                /\ log' = Append(log, call("raised", NoTable))
                /\ pc' = "stopped"
                /\ UNCHANGED << cache, data >>
           ELSE /\ data' = outcome.table
                /\ cache' = { e \in cache : e.key # key }
                               \cup { [ key |-> key, at |-> now,
                                        table |-> outcome.table ] }
                /\ log' = Append(log, call("provider", outcome.table))
                /\ pc' = "align"
                /\ UNCHANGED message
        /\ UNCHANGED << sessVars, now, calVars, widgetVars, fnVars, warning,
                        dateVars, checkVars, aligned, filtered_data, patch_i,
                        before_patch, last_quote, chart_data >>

-----------------------------------------------------------------------------
(* The render pass: alignment, drop of empty columns, realtime patch,      *)
(* normalization                                                           *)

\* DataFrame.ffill(): each missing value takes the last value above it
RECURSIVE FFillRows(_, _)
FFillRows(rows, carry) ==
    IF rows = << >> THEN << >>
    ELSE LET r == Head(rows)
             v == [ j \in DOMAIN r.val |->
                      IF isna(r.val[j]) THEN carry[j] ELSE r.val[j] ]
         IN  << Row(r.date, v) >> \o FFillRows(Tail(rows), v)

ffill(table) ==
    [ cols |-> table.cols,
      rows |-> FFillRows(table.rows, [ j \in DOMAIN table.cols |-> NaN ]) ]

\* combined[combined.index >= start]
trim(table, start) ==
    [ cols |-> table.cols,
      rows |-> SelectSeq(table.rows, LAMBDA r : r.date >= start) ]

\* combined[selected]: the columns named, in that order
select_columns(table, selected) ==
    [ cols |-> selected,
      rows |-> [ i \in DOMAIN table.rows |->
                   Row(table.rows[i].date,
                       [ j \in DOMAIN selected |->
                           table.rows[i].val[ColPos(table.cols, selected[j])] ]) ] ]

\* the rows are trimmed before they are filled
align_TrimFirst(table, start, selected) ==
    select_columns(ffill(trim(table, start)), selected)

\* forward-fill, trim to the start date, keep the selected columns
align(table, start, selected) ==
    select_columns(trim(ffill(table), start), selected)

Align ==
    /\ pc = "align"
    /\ stages' = Append(stages, "align")
    /\ aligned' = align(data, start_date, selected_assets)
    /\ pc' = "drop"
    /\ UNCHANGED << sessVars, now, otherVars, message, warning, dateVars,
                    checkVars, data, filtered_data, patch_i, before_patch,
                    last_quote, chart_data >>

\* the columns with a missing value somewhere
all_nan_assets_Any(table) ==
    SelectSeq(table.cols,
              LAMBDA c : \E i \in DOMAIN table.rows :
                            isna(table.rows[i].val[ColPos(table.cols, c)]))

\* filtered_data.columns[filtered_data.isna().all()].tolist()
all_nan_assets(table) ==
    SelectSeq(table.cols,
              LAMBDA c : \A i \in DOMAIN table.rows :
                            isna(table.rows[i].val[ColPos(table.cols, c)]))

\* filtered_data.drop(columns=names)
drop(table, names) ==
    select_columns(table, SelectSeq(table.cols, LAMBDA c : ~InList(c, names)))

\* DataFrame.empty: no column or no row
empty(table) == Len(table.cols) = 0 \/ Len(table.rows) = 0

DropEmpty ==
    /\ pc = "drop"
    /\ stages' = Append(stages, "drop")
    /\ warning' = all_nan_assets(aligned)
    /\ filtered_data' = drop(aligned, all_nan_assets(aligned))
    /\ IF empty(drop(aligned, all_nan_assets(aligned)))
       THEN /\ message' = "No valid price data available for the selected assets and date range."
            /\ pc' = "stopped"
            /\ UNCHANGED patch_i
       ELSE /\ pc' = "patch"
            /\ patch_i' = 1
            /\ UNCHANGED message
    /\ UNCHANGED << sessVars, now, otherVars, dateVars, checkVars, data,
                    aligned, before_patch, last_quote, chart_data >>

\* a new row dated date that holds price in column t and nothing else
new_row(table, t, price, date) ==
    Row(date, [ j \in DOMAIN table.cols |->
                  IF table.cols[j] = t THEN price ELSE NaN ])

\* filtered_data.loc[filtered_data.index[-1], t] = price
set_last(table, t, price) ==
    [ cols |-> table.cols,
      rows |-> [ table.rows EXCEPT ![Len(table.rows)] =
                   Row(@.date, [ @.val EXCEPT ![ColPos(table.cols, t)] = price ]) ] ]

\* a row is appended also when the last row is dated today
patch_AppendOnToday(table, t, price) ==
    IF table.rows[Len(table.rows)].date <= today
    THEN [ cols |-> table.cols,
           rows |-> Append(table.rows, new_row(table, t, price, today)) ]
    ELSE set_last(table, t, price)

\* the table with the live price of t put in
patch(table, t, price) ==
    IF table.rows[Len(table.rows)].date < today
    THEN [ cols |-> table.cols,
           rows |-> Append(table.rows, new_row(table, t, price, today)) ]
    ELSE set_last(table, t, price)

\* what yf.Ticker(t).info.get("regularMarketPrice") does: it raises, or
\* gives no price, or a price
QuoteOutcomes ==
    { [ outcome |-> "raised", price |-> NaN ],
      [ outcome |-> "none", price |-> NaN ],
      [ outcome |-> "price", price |-> Num(3) ] }

\* one turn of the realtime patch loop, for column patch_i
PatchStep(quote) ==
    LET t == filtered_data.cols[patch_i]
    IN  /\ pc = "patch"
        /\ stages' = IF patch_i = 1 THEN Append(stages, "patch") ELSE stages
        /\ before_patch' = filtered_data
        /\ IF IsContinuous(t)
           THEN /\ last_quote' = [ ticker |-> t, outcome |-> quote.outcome,
                                   price |-> quote.price ]
                /\ filtered_data' =
                      IF quote.outcome = "price" /\ ~isna(quote.price)
                      THEN patch(filtered_data, t, quote.price)
                      ELSE filtered_data
           ELSE /\ last_quote' = [ ticker |-> t, outcome |-> "not asked",
                                   price |-> NaN ]
                /\ UNCHANGED filtered_data
        /\ patch_i' = patch_i + 1
        /\ pc' = IF patch_i = Len(filtered_data.cols) THEN "normalize" ELSE "patch"
        /\ UNCHANGED << sessVars, now, otherVars, message, warning, dateVars,
                        checkVars, data, aligned, chart_data >>

\* pd.Series.first_valid_index of column j: 0 stands for None
first_valid_index(table, j) ==
    IF \A i \in DOMAIN table.rows : isna(table.rows[i].val[j]) THEN 0
    ELSE CHOOSE i \in DOMAIN table.rows :
            /\ ~isna(table.rows[i].val[j])
            /\ \A k \in 1..(i - 1) : isna(table.rows[k].val[j])

\* baseline_values.replace(0, pd.NA)
replace_zero(x) == IF x.kind = "num" /\ x.n = 0 THEN NaN ELSE x

\* baseline_values[c] after the replacement of zero
baseline_value(table, j) ==
    replace_zero(IF first_valid_index(table, j) = 0 THEN NaN
                 ELSE table.rows[first_valid_index(table, j)].val[j])

\* the 1 is subtracted after the multiplication
pct_change_Late(v, b) == FSub(FMul(FDiv(v, b), 100), 1)

\* (v / b - 1) * 100
pct_change(v, b) == FMul(FSub(FDiv(v, b), 1), 100)

\* (filtered_data.divide(baseline_values, axis=1) - 1) * 100
normalize(table) ==
    [ cols |-> table.cols,
      rows |-> [ i \in DOMAIN table.rows |->
                   Row(table.rows[i].date,
                       [ j \in DOMAIN table.cols |->
                           pct_change(table.rows[i].val[j],
                                      baseline_value(table, j)) ]) ] ]

Normalize ==
    /\ pc = "normalize"
    /\ stages' = Append(stages, "normalize")
    /\ chart_data' = IF view = "Normalized % Change"
                     THEN normalize(filtered_data)
                     ELSE filtered_data
    /\ pc' = "chart"
    /\ UNCHANGED << sessVars, now, otherVars, message, warning, dateVars,
                    checkVars, data, aligned, filtered_data, patch_i,
                    before_patch, last_quote >>

\* the chart is built and shown
Render ==
    /\ pc = "chart"
    /\ stages' = Append(stages, "chart")
    /\ pc' = "done"
    /\ UNCHANGED << sessVars, now, otherVars, message, warning, dateVars,
                    checkVars, tableVars >>

-----------------------------------------------------------------------------
(* The data stages on their own: every table get_yf_data may have returned *)

\* the dates of set S in ascending order
RECURSIVE Ascending(_)
Ascending(S) ==
    IF S = {} THEN << >>
    ELSE LET least == CHOOSE d \in S : \A e \in S : d <= e
         IN  << least >> \o Ascending(S \ { least })

\* the tables with columns cols, at most maxRows rows dated in dates and
\* values in vals
Tables(cols, dates, vals, maxRows) ==
    UNION { { [ cols |-> cols,
                rows |-> [ i \in DOMAIN Ascending(S) |->
                             Row(Ascending(S)[i], m[i]) ] ] :
              m \in [ DOMAIN Ascending(S) -> [ DOMAIN cols -> vals ] ] } :
            S \in { T \in SUBSET dates : Cardinality(T) <= maxRows } }

MaxRows == 2
PriceVals == { NaN, Num(0), Num(2) }
Views == { "Closing Price (USD)", "Normalized % Change" }

\* the selections the data stages are run on
DataSelections ==
    { << SPY >>, << BTCUSD >>, << SPY, BTCUSD >>, << ETHUSD, BTCUSD >> }

\* a session in which the Wednesday of the second week of the year is
\* today, "1 Week" is selected and get_yf_data has just returned
InitData ==
    /\ yf_ok = TRUE
    /\ ticker_list = tickers
    /\ selected_assets \in DataSelections
    /\ user_input = << >>
    /\ add_ticker_error = NoError
    /\ add_ticker_error_expires = 0
    /\ last_add = NoAdd
    /\ IdleClock
    /\ IdleClassifiers
    /\ jan1 = Epoch
    /\ today = Epoch + 9
    /\ holidays = { Observed(Epoch), Observed(Epoch - 365) }
    /\ selected_range = "1 Week"
    /\ view \in Views
    /\ pc = "align"
    /\ stages = << "calendar", "connectivity", "validate", "fetch" >>
    /\ message = ""
    /\ warning = << >>
    /\ days_back = 7
    /\ start_date = Epoch + 2
    /\ adj_date = Epoch + 2
    /\ last_probe = [ called |-> TRUE, flag |-> FALSE, outcome |-> "data" ]
    /\ checked = selected_assets
    /\ invalid = << >>
    /\ data \in Tables(sorted(selected_assets),
                        { Epoch + 1, Epoch + 2, Epoch + 9, Epoch + 10 },
                        PriceVals, MaxRows)
    /\ cache = { [ key |-> << sorted(selected_assets), strftime(adj_date) >>,
                   at |-> now, table |-> data ] }
    /\ log = << [ selected |-> selected_assets, adj |-> adj_date,
                  key |-> << sorted(selected_assets), strftime(adj_date) >>,
                  at |-> now, source |-> "provider", table |-> data ] >>
    /\ aligned = NoTable
    /\ filtered_data = NoTable
    /\ patch_i = 0
    /\ before_patch = NoTable
    /\ last_quote = NoQuote
    /\ chart_data = NoTable

NextData ==
    \/ Align
    \/ DropEmpty
    \/ \E quote \in QuoteOutcomes : PatchStep(quote)
    \/ Normalize
    \/ Render

SpecData == InitData /\ [][NextData]_vars

\* the index of the fetched row dated d
C6_FetchedAt(d) == CHOOSE k \in DOMAIN data.rows : data.rows[k].date = d

\* the fetched rows above row k that hold a value in column jc
C6_ValuesAbove(k, jc) ==
    { h \in 1..(k - 1) : ~isna(data.rows[h].val[jc]) }

C7_AllMissing ==
    { c \in Range(aligned.cols) :
        \A i \in DOMAIN aligned.rows :
            isna(aligned.rows[i].val[ColPos(aligned.cols, c)]) }

\* C7: exactly the all-missing columns are dropped and the warning names
\* exactly them; every other selected column is kept with its values; with
\* no column or no row left the pass stops with the empty-result error and
\* no patch, normalization or chart follows.
C7_DropAllMissingColumns ==
    InList("drop", stages) =>
        /\ Range(warning) = C7_AllMissing
        /\ Len(warning) = Cardinality(C7_AllMissing)
        /\ filtered_data.cols =
              SelectSeq(selected_assets, LAMBDA c : c \notin C7_AllMissing)
        /\ patch_i <= 1 =>
              /\ Len(filtered_data.rows) = Len(aligned.rows)
              /\ \A i \in DOMAIN filtered_data.rows :
                  \A j \in DOMAIN filtered_data.cols :
                     /\ filtered_data.rows[i].date = aligned.rows[i].date
                     /\ filtered_data.rows[i].val[j] =
                          aligned.rows[i].val[ColPos(aligned.cols,
                                                     filtered_data.cols[j])]
        /\ (Range(aligned.cols) = C7_AllMissing \/ aligned.rows = << >>) =>
              /\ pc = "stopped"
              /\ message = "No valid price data available for the selected assets and date range."
              /\ stages[Len(stages)] = "drop"
              /\ chart_data = NoTable

\* one column was dropped with a warning and the other kept
C7_Witness ==
    /\ pc = "patch"
    /\ Len(warning) = 1
    /\ Len(filtered_data.cols) = 1
    /\ Len(filtered_data.rows) = 2

\* the last turn of the patch loop obtained a live price
C8_Obtained == last_quote.outcome = "price" /\ ~isna(last_quote.price)

C8_LastDate == before_patch.rows[Len(before_patch.rows)].date

\* the table is the one before the turn with the price put into the last row
C8_Overwritten ==
    /\ filtered_data.cols = before_patch.cols
    /\ Len(filtered_data.rows) = Len(before_patch.rows)
    /\ \A i \in DOMAIN filtered_data.rows : \A j \in DOMAIN filtered_data.cols :
          /\ filtered_data.rows[i].date = before_patch.rows[i].date
          /\ filtered_data.rows[i].val[j] =
                IF i = Len(filtered_data.rows)
                   /\ filtered_data.cols[j] = last_quote.ticker
                THEN last_quote.price
                ELSE before_patch.rows[i].val[j]

\* the table is the one before the turn with one more row, dated today
C8_Appended ==
    /\ filtered_data.cols = before_patch.cols
    /\ Len(filtered_data.rows) = Len(before_patch.rows) + 1
    /\ \A i \in DOMAIN before_patch.rows :
          filtered_data.rows[i] = before_patch.rows[i]
    /\ filtered_data.rows[Len(filtered_data.rows)].date = today
    /\ \A j \in DOMAIN filtered_data.cols :
          filtered_data.rows[Len(filtered_data.rows)].val[j] =
             IF filtered_data.cols[j] = last_quote.ticker
             THEN last_quote.price ELSE NaN

\* after the loop: one row dated today at most, dates strictly ascending
C8_AfterLoop ==
    pc \in { "normalize", "chart", "done" } =>
        /\ Cardinality({ i \in DOMAIN filtered_data.rows :
                           filtered_data.rows[i].date = today }) <= 1
        /\ \A i \in 1..(Len(filtered_data.rows) - 1) :
              filtered_data.rows[i].date < filtered_data.rows[i + 1].date
        /\ patch_i = Len(filtered_data.cols) + 1

\* a turn without a price leaves the table alone and the loop goes on
C8_SkipLeavesTable ==
    /\ ~C8_Obtained => filtered_data = before_patch
    /\ pc \notin { "stopped", "crashed" }
    /\ last_quote.ticker = filtered_data.cols[patch_i - 1]

\* C8 as stated: a price obtained for a ticker overwrites the last row when
\* that row is dated today and otherwise appends a row dated today; after
\* the loop at most one row is dated today and the dates are strictly
\* ascending; a failed quote changes nothing and stops nothing.
C8_PatchOverwritesOrAppends_AsStated ==
    InList("patch", stages) =>
        /\ (C8_Obtained /\ C8_LastDate = today) => C8_Overwritten
        /\ (C8_Obtained /\ C8_LastDate # today) => C8_Appended
        /\ C8_SkipLeavesTable
        /\ C8_AfterLoop

\* C8 (amended): the last row is overwritten when it is dated today or
\* later, and a row dated today is appended when it is dated before today.
C8_PatchOverwritesOrAppends ==
    InList("patch", stages) =>
        /\ (C8_Obtained /\ C8_LastDate >= today) => C8_Overwritten
        /\ (C8_Obtained /\ C8_LastDate < today) => C8_Appended
        /\ C8_SkipLeavesTable
        /\ C8_AfterLoop

\* the quote of the first of two continuous tickers failed, the second one
\* appended today's row
C8_Witness ==
    /\ pc = "normalize"
    /\ filtered_data.cols = << ETHUSD, BTCUSD >>
    /\ last_quote.ticker = BTCUSD
    /\ C8_Obtained
    /\ Len(filtered_data.rows) = Len(aligned.rows) + 1
    /\ filtered_data.rows[Len(filtered_data.rows)].val = << NaN, Num(3) >>

\* the first non-missing value of column j of the table that is normalized
C9_Baseline(j) ==
    filtered_data.rows[CHOOSE i \in DOMAIN filtered_data.rows :
        /\ ~isna(filtered_data.rows[i].val[j])
        /\ \A k \in 1..(i - 1) : isna(filtered_data.rows[k].val[j])].val[j]

C9_HasValue(j) ==
    \E i \in DOMAIN filtered_data.rows : ~isna(filtered_data.rows[i].val[j])

\* x = (v / b - 1) * 100 for the fractions x, v and b
C9_IsPercentChange(x, v, b) ==
    /\ x.kind = "num"
    /\ x.n * (v.d * b.n) = 100 * (v.n * b.d - v.d * b.n) * x.d

\* C3: in normalized view a column whose first non-missing value is 0 holds
\* a finite number, not an infinity and not NaN, in the row of that value.
C3_ZeroBaselineIsFinite ==
    (pc \in { "chart", "done" } /\ view = "Normalized % Change") =>
        \A j \in DOMAIN filtered_data.cols :
            (C9_HasValue(j) /\ C9_Baseline(j).n = 0) =>
                \A i \in DOMAIN filtered_data.rows :
                    ( /\ ~isna(filtered_data.rows[i].val[j])
                      /\ \A k \in 1..(i - 1) : isna(filtered_data.rows[k].val[j]) )
                    => chart_data.rows[i].val[j].kind = "num"

\* C9: in normalized view every non-missing value v of a column whose first
\* non-missing value b is not zero is charted as (v / b - 1) * 100, which
\* is 0 in the row of b; in raw view the chart holds the table unchanged.
C9_PercentChangeFromBaseline ==
    pc \in { "chart", "done" } =>
        /\ view = "Normalized % Change" =>
              /\ chart_data.cols = filtered_data.cols
              /\ Len(chart_data.rows) = Len(filtered_data.rows)
              /\ \A j \in DOMAIN filtered_data.cols :
                  (C9_HasValue(j) /\ C9_Baseline(j).n # 0) =>
                     \A i \in DOMAIN filtered_data.rows :
                        LET v == filtered_data.rows[i].val[j]
                            x == chart_data.rows[i].val[j]
                        IN  /\ chart_data.rows[i].date = filtered_data.rows[i].date
                            /\ ~isna(v) => C9_IsPercentChange(x, v, C9_Baseline(j))
                            /\ ( /\ ~isna(v)
                                 /\ \A k \in 1..(i - 1) :
                                       isna(filtered_data.rows[k].val[j]) )
                               => x = Num(0)
        /\ view = "Closing Price (USD)" => chart_data = filtered_data

\* a column with baseline 2 and a live price of 3 in its last row is charted
\* as 0 and 50
C9_Witness ==
    /\ pc = "chart"
    /\ view = "Normalized % Change"
    /\ \E j \in DOMAIN filtered_data.cols :
          /\ filtered_data.rows[1].val[j] = Num(2)
          /\ filtered_data.rows[Len(filtered_data.rows)].val[j] = Num(3)
          /\ chart_data.rows[1].val[j] = Num(0)
          /\ chart_data.rows[Len(chart_data.rows)].val[j] = Num(50)

-----------------------------------------------------------------------------
(* One session: render passes, with the user changing the selection and    *)
(* the range between them, and time passing                                *)

TickSecs == TTL \div 2
MaxClock == 3600

\* time passes between two runs of the script
Tick ==
    /\ pc = "idle"
    /\ now + TickSecs <= MaxClock
    /\ now' = now + TickSecs
    /\ UNCHANGED << sessVars, otherVars, passVars >>

\* the frames the modelled provider answers with: no row, or one row dated
\* today
FeedVals == { Num(1) }

\* what yf.download may do when get_yf_data asks it for the columns cols
DownloadOutcomes(cols) ==
    { [ raised |-> TRUE, table |-> NoTable ] } \cup
    { [ raised |-> FALSE, table |-> t ] :
        t \in Tables(cols, { today }, FeedVals, 1) }

\* what the modelled user toggles and picks between passes
PassSelection == << SPY, BTCUSD >>
PassToggles == { SPY }
RangeChoices == { "1 Week", "1 Month" }

\* a new session in which the user has narrowed the selection to SPY and
\* BTC-USD; today is the Wednesday of the second week of the year
Init ==
    /\ yf_ok = FALSE
    /\ ticker_list = tickers
    /\ selected_assets = PassSelection
    /\ user_input = << >>
    /\ add_ticker_error = NoError
    /\ add_ticker_error_expires = 0
    /\ last_add = NoAdd
    /\ IdleClock
    /\ IdleWidgets
    /\ IdleCache
    /\ IdlePass
    /\ IdleClassifiers
    /\ jan1 = Epoch
    /\ today = Epoch + 9
    /\ holidays = { Observed(Epoch), Observed(Epoch - 365) }

Next ==
    \/ \E t \in PassToggles : Multiselect(t)
    \/ \E r \in RangeChoices : SelectRange(r)
    \/ Tick
    \/ DateCalc
    \/ \E probe \in ProbeOutcomes : ensure_yfinance_once(probe)
    \/ \E answers \in [ Range(selected_assets) -> BOOLEAN ] : validate_assets(answers)
    \/ \E outcome \in DownloadOutcomes(sorted(selected_assets)) : Download(outcome)
    \/ Align
    \/ DropEmpty
    \/ \E quote \in QuoteOutcomes : PatchStep(quote)
    \/ Normalize
    \/ Render
    \/ Rerun

Spec == Init /\ [][Next]_vars

\* the stages of a pass in the order of the script
C2_StageOrder == << "calendar", "connectivity", "validate", "fetch", "align",
                    "drop", "patch", "normalize", "chart" >>

\* the stage at which a pass that showed this error message stopped
C2_FailedStage ==
    CASE message = "No data from Yahoo Finance. Possible rate limiting. Please try again later."
           -> "connectivity"
      [] message = "Data connection error: {}" -> "connectivity"
      [] message = "Invalid ticker(s): {}. Please correct your selection."
           -> "validate"
      [] message = "Download failed: {}" -> "fetch"
      [] OTHER -> "none"

\* C2: in a pass the stages run in the order of the script; get_yf_data is
\* called only when the connectivity check passed and every selected ticker
\* was checked and found valid; normalization runs only on a table that the
\* fetch returned; a failed connectivity check, an invalid ticker or a
\* download that raised stops the pass at that stage and nothing later runs.
C2_ChecksBeforeFetchBeforeNormalize ==
    /\ stages = SubSeq(C2_StageOrder, 1, Len(stages))
    /\ InList("fetch", stages) =>
          /\ yf_ok
          /\ checked = selected_assets
          /\ invalid = << >>
    /\ InList("normalize", stages) =>
          /\ log # << >>
          /\ log[Len(log)].source \in { "provider", "cache" }
          /\ data = log[Len(log)].table
    /\ invalid # << >> => C2_FailedStage = "validate"
    /\ C2_FailedStage # "none" =>
          /\ pc = "stopped"
          /\ stages[Len(stages)] = C2_FailedStage
          /\ aligned = NoTable
          /\ chart_data = NoTable
          /\ C2_FailedStage # "fetch" => data = NoTable
          /\ C2_FailedStage = "connectivity" => ~yf_ok

\* a pass ran every stage on two validated tickers
C2_Witness ==
    /\ pc = "done"
    /\ stages = C2_StageOrder
    /\ Len(checked) = 2
    /\ chart_data # NoTable

\* the earlier calls that downloaded the table for the ticker set and the
\* start date of call j, less than the time to live before it
C10_Live(j) ==
    { i \in 1..(j - 1) :
        /\ Range(log[i].selected) = Range(log[j].selected)
        /\ log[i].adj = log[j].adj
        /\ log[i].source = "provider"
        /\ log[j].at - log[i].at < TTL }

\* C10: the key of every call is the sorted tuple of the selected tickers
\* and the text of the adjusted start date; a call is answered from the
\* cache, with the table that was downloaded, exactly when the same ticker
\* set (in any order) and start date were downloaded less than an hour
\* before; every other call asks the provider, also after a download that
\* raised.
C10_CacheKeyAndTTL ==
    \A j \in DOMAIN log :
        /\ log[j].key = << sorted(log[j].selected), strftime(log[j].adj) >>
        /\ \A a, b \in DOMAIN log[j].key[1] :
              a < b => StrLess(log[j].key[1][a], log[j].key[1][b])
        /\ C10_Live(j) # {} =>
              /\ log[j].source = "cache"
              /\ log[j].table =
                    log[CHOOSE i \in C10_Live(j) :
                           \A h \in C10_Live(j) : h <= i].table
        /\ C10_Live(j) = {} => log[j].source \in { "provider", "raised" }

\* SPY then BTC-USD were selected and downloaded; half an hour later the
\* selection BTC-USD then SPY was answered from the cache
C10_Witness ==
    /\ Len(log) = 2
    /\ log[1].selected = << SPY, BTCUSD >>
    /\ log[2].selected = << BTCUSD, SPY >>
    /\ log[1].source = "provider"
    /\ log[2].source = "cache"
    /\ log[2].at > log[1].at
    /\ log[1].table.rows # << >>

\* the pass asked the provider for the connectivity probe
C11_Probed == last_probe.outcome # "none"

\* what a pass shows of the connectivity check: the probe is issued exactly
\* when the flag was false at the call; a probe that returned data sets the
\* flag; a probe that returned nothing or raised leaves it false and stops
\* the pass at the connectivity stage
C11_Pass ==
    /\ last_probe.called = InList("connectivity", stages)
    /\ last_probe.called => (C11_Probed <=> ~last_probe.flag)
    /\ last_probe.flag => yf_ok
    /\ last_probe.outcome = "data" => yf_ok
    /\ last_probe.outcome \in { "empty", "raise" } =>
          /\ ~yf_ok
          /\ pc = "stopped"
          /\ stages[Len(stages)] = "connectivity"
          /\ checked = << >>
          /\ data = NoTable
          /\ chart_data = NoTable

\* what a step may do to the flag: never clear it, and set it only in the
\* connectivity check of a pass whose probe returned data
C11_Step ==
    /\ yf_ok => yf_ok'
    /\ (~yf_ok /\ yf_ok') =>
          /\ pc = "connectivity"
          /\ last_probe' = [ called |-> TRUE, flag |-> FALSE, outcome |-> "data" ]

\* C11: yf_ok starts false, is set only by a connectivity probe that returned
\* data and is never cleared in the session; a probe that returned nothing
\* or raised stops the pass with the flag still false, so that the next pass
\* probes again; a pass that finds the flag set issues no probe.
C11_ConnectivityLatch == ~yf_ok /\ []C11_Pass /\ [][C11_Step]_vars

\* a second download was served by a pass that found the flag set and
\* issued no probe
C11_Witness ==
    /\ pc = "done"
    /\ yf_ok
    /\ last_probe = [ called |-> TRUE, flag |-> TRUE, outcome |-> "none" ]
    /\ Len(log) = 2

====
